---- MODULE Spec2Model ----
\* The preview lifecycle coordinator of src/src/manager.ts (class Manager) as a
\* state machine.  The Manager's fields are variables; every public method,
\* event handler and timer callback is one action.  The collaborators whose
\* source is outside src/ (Server, ServerTaskProvider, ConnectionManager,
\* BrowserPreview, WorkspaceManager, EndpointManager, settings) are modelled at
\* the interface the spec gives them.
EXTENDS Integers, Sequences, FiniteSets, TLC

\* ---------------------------------------------------------------- bounds
\* successful server starts whose connected event has not been delivered yet
MaxConnects == 2
\* resolveExternalHTTPUri() promises not settled yet
MaxResolves == 1
\* BrowserPreview objects alive at once (the code keeps at most one)
MaxSessions == 2
\* timeout handles
MaxTimers == 2

SessionIds == 1..MaxSessions
TimerIds == 1..MaxTimers

\* ---------------------------------------------------------------- paths
\* A path is its sequence of segments.  Absolute paths start at a root folder.
WorkspaceRoot == <<"ws">>
OtherWorkspaceRoot == <<"ws2">>
EndpointTag == "endpoint"
NoFile == <<>>

\* file / relative pairs the host hands in: a server-relative path, and an
\* absolute path under WorkspaceRoot (inside the default workspace when one is
\* open, a loose file when none is)
Requests ==
    { [file |-> <<"a.html">>, relative |-> TRUE],
      [file |-> <<"ws", "sub", "b.html">>, relative |-> FALSE] }

\* the optional vscode.WebviewPanel argument: none, or a panel being restored
PanelArgs == {"none", "restored"}

IsPrefix(p, q) == Len(p) <= Len(q) /\ SubSeq(q, 1, Len(p)) = p

\* ---------------------------------------------------------------- state
VARIABLES
    currentPanel,           \* Manager.currentPanel: 0 (undefined) or a session id
    previewActive,          \* Manager._previewActive
    currentTimeout,         \* Manager._currentTimeout: 0 (undefined) or a timer id
    notifiedAboutLooseFiles,\* Manager._notifiedAboutLooseFiles
    pendingLaunchInfo,      \* Manager._pendingLaunchInfo: <<>> or <<launchInfo>>
    runTaskWithExternalPreview, \* Manager._runTaskWithExternalPreview
    serverOn,               \* Server.isRunning
    pendingConnects,        \* successful starts whose connected event is due
    connected,              \* ConnectionManager: connected / disconnected()
    taskRunning,            \* ServerTaskProvider.isRunning
    taskRequested,          \* extRunTask issued, task not opened yet
    pendingResolves,        \* resolveExternalHTTPUri() promises in flight
    sessions,               \* live BrowserPreview objects: [id, file, panel]
    timers,                 \* scheduled, not fired, not cleared timeouts: [id, delay]
    workspaceOpen,          \* WorkspaceManager.workspace is defined
    effects,                \* calls the last handler made on its collaborators
    lastOp,                 \* the last handler run, its arguments and result
    embeddedStarts          \* successful starts issued by createOrShowEmbeddedPreview
                            \* since the server last connected

vars == << currentPanel, previewActive, currentTimeout, notifiedAboutLooseFiles,
           pendingLaunchInfo, runTaskWithExternalPreview, serverOn, pendingConnects,
           connected, taskRunning, taskRequested, pendingResolves, sessions, timers,
           workspaceOpen, effects, lastOp,
           embeddedStarts >>

\* SettingUtil.GetConfig() is read anew by each handler that needs it: the
\* settings a handler sees are an input of the handler.  The keep-alive setting
\* is a number of minutes, num / den.
KeepAliveValues == { [num |-> 0, den |-> 1], [num |-> 1, den |-> 7] }

Configs == [keepAlive : KeepAliveValues, notifyOnOpenLooseFile : BOOLEAN]

NoConfig == [keepAlive |-> [num |-> 0, den |-> 1], notifyOnOpenLooseFile |-> FALSE]

\* the settings as seen by a handler that can only reach notifyLooseFileOpen
LaunchConfigs == { c \in Configs : c.keepAlive = NoConfig.keepAlive }

\* the settings as seen by a handler that can only reach the onDispose handler
DisposeConfigs ==
    { c \in Configs : c.notifyOnOpenLooseFile = NoConfig.notifyOnOpenLooseFile }

\* The whole state as one record, so that a method is a function from the state
\* before the call to the state after it (field ret holds the return value,
\* field out the path a path method computes, field cfg the settings read).
St(cfg) ==
    [ currentPanel |-> currentPanel, previewActive |-> previewActive,
      currentTimeout |-> currentTimeout,
      notifiedAboutLooseFiles |-> notifiedAboutLooseFiles,
      pendingLaunchInfo |-> pendingLaunchInfo,
      runTaskWithExternalPreview |-> runTaskWithExternalPreview,
      serverOn |-> serverOn, pendingConnects |-> pendingConnects,
      connected |-> connected, taskRunning |-> taskRunning,
      taskRequested |-> taskRequested, pendingResolves |-> pendingResolves,
      sessions |-> sessions, timers |-> timers, workspaceOpen |-> workspaceOpen,
      cfg |-> cfg, effects |-> <<>>, ret |-> "void", out |-> NoFile ]

Eff(op, file, flag) == [op |-> op, file |-> file, flag |-> flag]

Emit(s, op, file, flag) == [s EXCEPT !.effects = Append(@, Eff(op, file, flag))]

Return(s, v) == [s EXCEPT !.ret = v]

BoolStr(b) == IF b THEN "true" ELSE "false"

launchInfo(external, file, relative, panel) ==
    [external |-> external, file |-> file, relative |-> relative, panel |-> panel]

\* ---------------------------------------------------------------- collaborators
\* WorkspaceManager.absPathInDefaultWorkspace
absPathInDefaultWorkspace(s, file) ==
    s.workspaceOpen /\ IsPrefix(WorkspaceRoot, file)

\* WorkspaceManager.absPathInAnyWorkspace
absPathInAnyWorkspace(s, file) ==
    s.workspaceOpen /\ (IsPrefix(WorkspaceRoot, file) \/ IsPrefix(OtherWorkspaceRoot, file))

\* WorkspaceManager.getFileRelativeToDefaultWorkspace
getFileRelativeToDefaultWorkspace(file) ==
    SubSeq(file, Len(WorkspaceRoot) + 1, Len(file))

\* EndpointManager.encodeLooseFileEndpoint
encodeLooseFileEndpoint(file) == <<EndpointTag>> \o file

\* Server.openServer(port): ok is whether the start succeeds; a successful start
\* owes one connected event.
Server_openServer(s, ok) ==
    Return(Emit([s EXCEPT !.pendingConnects = IF ok THEN @ + 1 ELSE @],
                "Server.openServer", NoFile, BoolStr(ok)),
           BoolStr(ok))

\* Server.closeServer()
Server_closeServer(s) ==
    Emit([s EXCEPT !.serverOn = FALSE], "Server.closeServer", NoFile, "")

\* ConnectionManager.disconnected()
disconnected(s) ==
    Emit([s EXCEPT !.connected = FALSE], "disconnected", NoFile, "")

\* ServerTaskProvider.serverStarted(uri, status)
serverStarted(s, status) == Emit(s, "serverStarted", NoFile, status)

\* ServerTaskProvider.serverStop(now): the task ends
serverStop(s, now) ==
    Emit([s EXCEPT !.taskRunning = FALSE], "serverStop", NoFile, BoolStr(now))

\* ServerTaskProvider.extRunTask(verbose): the task is asked to run; it opens later
extRunTask(s) ==
    Emit([s EXCEPT !.taskRequested = TRUE], "extRunTask", NoFile, "")

FreeSessionIds(s) == SessionIds \ { x.id : x \in s.sessions }

\* a handle no live timer has (the handle being overwritten may be reused)
FreeTimerIds(s) == TimerIds \ { t.id : t \in s.timers }

Min(S) == CHOOSE x \in S : \A y \in S : x <= y

\* clearTimeout(handle)
clearTimeout(s, handle) ==
    Emit([s EXCEPT !.timers = { t \in @ : t.id # handle }], "clearTimeout", NoFile, "")

\* BrowserPreview.reveal(column, file): the live session shows file
reveal(s, id, file) ==
    Emit([s EXCEPT !.sessions =
              { IF x.id = id THEN [x EXCEPT !.file = file] ELSE x : x \in @ }],
         "reveal", file, "")

\* ---------------------------------------------------------------- Manager
\* notifyLooseFileOpen that does not consult the _notifiedAboutLooseFiles latch
notifyLooseFileOpen_noLatch(s) ==
    LET s1 == Emit(s, "sendTelemetryEvent", NoFile, "preview.fileOutOfWorkspace")
        s2 == IF s1.cfg.notifyOnOpenLooseFile
              THEN Emit(s1, "showWarningMessage", NoFile, "")
              ELSE s1
    IN  [s2 EXCEPT !.notifiedAboutLooseFiles = TRUE]

\* Manager.notifyLooseFileOpen
notifyLooseFileOpen(s) ==
    LET s1 == Emit(s, "sendTelemetryEvent", NoFile, "preview.fileOutOfWorkspace")
        s2 == IF ~s1.notifiedAboutLooseFiles /\ s1.cfg.notifyOnOpenLooseFile
              THEN Emit(s1, "showWarningMessage", NoFile, "")
              ELSE s1
    IN  [s2 EXCEPT !.notifiedAboutLooseFiles = TRUE]

\* transformNonRelativeFile that notifies for every path outside the default
\* workspace, without asking absPathInAnyWorkspace
transformNonRelativeFile_notifyAlways(s, relative, file) ==
    IF ~relative
    THEN IF ~absPathInDefaultWorkspace(s, file)
         THEN [notifyLooseFileOpen(s) EXCEPT !.out = encodeLooseFileEndpoint(file)]
         ELSE [s EXCEPT !.out = getFileRelativeToDefaultWorkspace(file)]
    ELSE [s EXCEPT !.out = file]

\* Manager.transformNonRelativeFile: the resulting path is left in field out
transformNonRelativeFile(s, relative, file) ==
    IF ~relative
    THEN IF ~absPathInDefaultWorkspace(s, file)
         THEN LET s1 == IF ~absPathInAnyWorkspace(s, file)
                        THEN notifyLooseFileOpen(s)
                        ELSE s
              IN  [s1 EXCEPT !.out = encodeLooseFileEndpoint(file)]
         ELSE [s EXCEPT !.out = getFileRelativeToDefaultWorkspace(file)]
    ELSE [s EXCEPT !.out = file]

\* the onDispose handler registered on the session by startEmbeddedPreview
onDispose(s) ==
    LET t == Min(FreeTimerIds(s))
        \* Math.floor(closeServerDelay * 1000 * 60)
        delay == (s.cfg.keepAlive.num * 1000 * 60) \div s.cfg.keepAlive.den
    IN  Emit([s EXCEPT !.currentPanel = 0,
                       !.currentTimeout = t,
                       !.timers = @ \cup {[id |-> t, delay |-> delay]}],
             "setTimeout", NoFile, "")

\* BrowserPreview.close(): the session is disposed and its onDispose event fires
BrowserPreview_close(s, id) ==
    onDispose(Emit([s EXCEPT !.sessions = { x \in @ : x.id # id }],
                   "close", NoFile, ""))

\* closeServer that marks the connection disconnected whether or not the server runs
closeServer_alwaysDisconnect(s) ==
    IF s.serverOn
    THEN LET s1 == Server_closeServer(s)
             s2 == IF s1.currentPanel # 0
                   THEN BrowserPreview_close(s1, s1.currentPanel)
                   ELSE s1
             s3 == IF s2.taskRunning THEN serverStop(s2, TRUE) ELSE s2
         IN  Return(disconnected(s3), "true")
    ELSE Return(disconnected(s), "false")

\* closeServer that leaves the live session open
closeServer_keepPanel(s) ==
    IF s.serverOn
    THEN LET s1 == Server_closeServer(s)
             s3 == IF s1.taskRunning THEN serverStop(s1, TRUE) ELSE s1
         IN  Return(disconnected(s3), "true")
    ELSE Return(s, "false")

\* Manager.closeServer
closeServer(s) ==
    IF s.serverOn
    THEN LET s1 == Server_closeServer(s)
             s2 == IF s1.currentPanel # 0
                   THEN BrowserPreview_close(s1, s1.currentPanel)
                   ELSE s1
             s3 == IF s2.taskRunning THEN serverStop(s2, TRUE) ELSE s2
         IN  Return(disconnected(s3), "true")
    ELSE Return(s, "false")

\* the timer callback without the reset of _previewActive
shutdownTimerCallback_keepActive(s) ==
    LET s1 == IF /\ s.serverOn
                 /\ ~s.taskRunning
                 /\ s.workspaceOpen
                 /\ s.runTaskWithExternalPreview
              THEN closeServer(s)
              ELSE s
    IN  Return(s1, "void")

\* the timer callback that does not look at the task
shutdownTimerCallback_noTaskCheck(s) ==
    LET s1 == IF /\ s.serverOn
                 /\ s.workspaceOpen
                 /\ s.runTaskWithExternalPreview
              THEN closeServer(s)
              ELSE s
    IN  Return([s1 EXCEPT !.previewActive = FALSE], "void")

\* the setTimeout callback of the onDispose handler
shutdownTimerCallback(s) ==
    LET s1 == IF /\ s.serverOn
                 /\ ~s.taskRunning
                 /\ s.workspaceOpen
                 /\ s.runTaskWithExternalPreview
              THEN closeServer(s)
              ELSE s
    IN  Return([s1 EXCEPT !.previewActive = FALSE], "void")

\* startEmbeddedPreview without the clearTimeout of the pending shutdown timer
startEmbeddedPreview_noClear(s, panel, file) ==
    LET id == Min(FreeSessionIds(s))
    IN  Emit([s EXCEPT !.currentPanel = id,
                       !.sessions = @ \cup {[id |-> id, file |-> file, panel |-> panel]},
                       !.previewActive = TRUE],
             "newBrowserPreview", file, panel)

\* Manager.startEmbeddedPreview
\* startEmbeddedPreview that does not set _previewActive
startEmbeddedPreview_noActive(s, panel, file) ==
    LET s1 == IF s.currentTimeout # 0 THEN clearTimeout(s, s.currentTimeout) ELSE s
        id == Min(FreeSessionIds(s1))
    IN  Emit([s1 EXCEPT !.currentPanel = id,
                        !.sessions = @ \cup {[id |-> id, file |-> file, panel |-> panel]}],
             "newBrowserPreview", file, panel)

startEmbeddedPreview(s, panel, file) ==
    LET s1 == IF s.currentTimeout # 0 THEN clearTimeout(s, s.currentTimeout) ELSE s
        id == Min(FreeSessionIds(s1))
    IN  Emit([s1 EXCEPT !.currentPanel = id,
                        !.sessions = @ \cup {[id |-> id, file |-> file, panel |-> panel]},
                        !.previewActive = TRUE],
             "newBrowserPreview", file, panel)

\* launchFileInEmbeddedPreview without the check for an existing panel
launchFileInEmbeddedPreview_noReuse(s, file, relative, panel) ==
    LET s1 == transformNonRelativeFile(s, relative, file)
    IN  IF panel = "none"
        THEN startEmbeddedPreview(Emit(s1, "createWebviewPanel", NoFile, ""),
                                  "created", s1.out)
        ELSE startEmbeddedPreview(s1, panel, s1.out)

\* Manager.launchFileInEmbeddedPreview
launchFileInEmbeddedPreview(s, file, relative, panel) ==
    LET s1 == transformNonRelativeFile(s, relative, file)
    IN  IF s1.currentPanel # 0
        THEN reveal(s1, s1.currentPanel, s1.out)
        ELSE IF panel = "none"
             THEN startEmbeddedPreview(Emit(s1, "createWebviewPanel", NoFile, ""),
                                       "created", s1.out)
             ELSE startEmbeddedPreview(s1, panel, s1.out)

\* Manager.launchFileInExternalBrowser
launchFileInExternalBrowser(s, file, relative) ==
    LET s1 == transformNonRelativeFile(s, relative, file)
    IN  Emit(s1, "openExternal", s1.out, "")

\* Manager.openServer
openServer(s, fromTask, ok) ==
    IF ~s.serverOn
    THEN Server_openServer(s, ok)
    ELSE IF fromTask
         THEN Return(Emit([s EXCEPT !.pendingResolves = @ + 1],
                          "resolveExternalHTTPUri", NoFile, ""), "true")
         ELSE Return(s, "true")

\* the continuation reporting the status of a fresh start
onExternalUriResolved_justStarted(s) ==
    serverStarted([s EXCEPT !.pendingResolves = @ - 1], "JUST_STARTED")

\* the continuation of resolveExternalHTTPUri() in openServer
onExternalUriResolved(s) ==
    serverStarted([s EXCEPT !.pendingResolves = @ - 1], "STARTED_BY_EMBEDDED_PREV")

\* Manager.createOrShowEmbeddedPreview
createOrShowEmbeddedPreview(s, panel, file, relative, ok) ==
    IF ~s.serverOn
    THEN Return(openServer([s EXCEPT !.pendingLaunchInfo =
                                <<launchInfo(FALSE, file, relative, panel)>>],
                           FALSE, ok), "void")
    ELSE Return(launchFileInEmbeddedPreview(s, file, relative, panel), "void")

\* Manager.showPreviewInBrowser
\* showPreviewInBrowser that runs the task only while the server is stopped
showPreviewInBrowser_taskOnlyWhenStopped(s, file, relative, ok) ==
    IF ~s.taskRunning
    THEN IF ~s.serverOn
         THEN LET s1 == [s EXCEPT !.pendingLaunchInfo =
                             <<launchInfo(TRUE, file, relative, "none")>>]
              IN  IF s1.workspaceOpen /\ s1.runTaskWithExternalPreview
                  THEN Return(extRunTask(s1), "void")
                  ELSE Return(openServer(s1, FALSE, ok), "void")
         ELSE Return(launchFileInExternalBrowser(s, file, relative), "void")
    ELSE Return(launchFileInExternalBrowser(s, file, relative), "void")

showPreviewInBrowser(s, file, relative, ok) ==
    IF ~s.taskRunning
    THEN LET s1 == IF ~s.serverOn
                   THEN [s EXCEPT !.pendingLaunchInfo =
                             <<launchInfo(TRUE, file, relative, "none")>>]
                   ELSE launchFileInExternalBrowser(s, file, relative)
         IN  IF s1.workspaceOpen /\ s1.runTaskWithExternalPreview
             THEN Return(extRunTask(s1), "void")
             ELSE Return(openServer(s1, FALSE, ok), "void")
    ELSE Return(launchFileInExternalBrowser(s, file, relative), "void")

\* the onRequestToOpenServer handler
onRequestToOpenServer(s, ok) == openServer(s, TRUE, ok)

\* the close-requested handler that closes the server whatever _previewActive is
onRequestToCloseServer_alwaysClose(s) ==
    Return(serverStop(closeServer(s), TRUE), "void")

\* the onRequestToCloseServer handler
onRequestToCloseServer(s) ==
    IF s.previewActive
    THEN Return(serverStop(s, FALSE), "void")
    ELSE Return(serverStop(closeServer(s), TRUE), "void")

\* the onConnected handler without the reset of _pendingLaunchInfo
onConnected_keepIntent(s) ==
    LET s1 == serverStarted(s, "JUST_STARTED")
    IN  IF s1.pendingLaunchInfo # <<>>
        THEN LET info == s1.pendingLaunchInfo[1]
                 s2 == IF info.external
                       THEN launchFileInExternalBrowser(s1, info.file, info.relative)
                       ELSE launchFileInEmbeddedPreview(s1, info.file, info.relative,
                                                        info.panel)
             IN  Return(s2, "void")
        ELSE Return(s1, "void")

\* the onConnected handler that sends every intent to the embedded preview
onConnected_embeddedOnly(s) ==
    LET s1 == serverStarted(s, "JUST_STARTED")
    IN  IF s1.pendingLaunchInfo # <<>>
        THEN LET info == s1.pendingLaunchInfo[1]
                 s2 == launchFileInEmbeddedPreview(s1, info.file, info.relative,
                                                   info.panel)
             IN  Return([s2 EXCEPT !.pendingLaunchInfo = <<>>], "void")
        ELSE Return(s1, "void")

\* the ConnectionManager.onConnected handler
\* onConnected that clears the stored intent without launching it
onConnected_dropIntent(s) ==
    LET s1 == serverStarted(s, "JUST_STARTED")
    IN  Return([s1 EXCEPT !.pendingLaunchInfo = <<>>], "void")

onConnected(s) ==
    LET s1 == serverStarted(s, "JUST_STARTED")
    IN  IF s1.pendingLaunchInfo # <<>>
        THEN LET info == s1.pendingLaunchInfo[1]
                 s2 == IF info.external
                       THEN launchFileInExternalBrowser(s1, info.file, info.relative)
                       ELSE launchFileInEmbeddedPreview(s1, info.file, info.relative,
                                                        info.panel)
             IN  Return([s2 EXCEPT !.pendingLaunchInfo = <<>>], "void")
        ELSE Return(s1, "void")

\* the onShiftToExternalBrowser handler registered by startEmbeddedPreview
onShiftToExternalBrowser(s) ==
    IF ~s.taskRunning /\ s.runTaskWithExternalPreview
    THEN Return(extRunTask(s), "void")
    ELSE Return(s, "void")

\* Server: both sockets are up; isRunning turns true and the connected event fires
Server_connected(s) ==
    [s EXCEPT !.serverOn = TRUE, !.connected = TRUE, !.pendingConnects = @ - 1]

\* ServerTaskProvider: the task's terminal opens
Task_open(s) == [s EXCEPT !.taskRunning = TRUE, !.taskRequested = FALSE]

\* ---------------------------------------------------------------- actions
Commit(s) ==
    /\ currentPanel' = s.currentPanel
    /\ previewActive' = s.previewActive
    /\ currentTimeout' = s.currentTimeout
    /\ notifiedAboutLooseFiles' = s.notifiedAboutLooseFiles
    /\ pendingLaunchInfo' = s.pendingLaunchInfo
    /\ runTaskWithExternalPreview' = s.runTaskWithExternalPreview
    /\ serverOn' = s.serverOn
    /\ pendingConnects' = s.pendingConnects
    /\ connected' = s.connected
    /\ taskRunning' = s.taskRunning
    /\ taskRequested' = s.taskRequested
    /\ pendingResolves' = s.pendingResolves
    /\ sessions' = s.sessions
    /\ timers' = s.timers
    /\ workspaceOpen' = s.workspaceOpen
    /\ effects' = s.effects

Op(name, req, arg, ret) == [name |-> name, req |-> req, arg |-> arg, ret |-> ret]

\* outcomes of a server start (none is made while the server runs): it may fail;
\* it succeeds only while fewer than MaxConnects connected events are owed
StartOutcomes ==
    IF serverOn THEN {TRUE}
    ELSE IF pendingConnects < MaxConnects THEN BOOLEAN ELSE {FALSE}

Init ==
    /\ currentPanel = 0
    /\ previewActive = FALSE
    /\ currentTimeout = 0
    /\ notifiedAboutLooseFiles = FALSE
    /\ pendingLaunchInfo = <<>>
    /\ runTaskWithExternalPreview \in BOOLEAN
    /\ serverOn = FALSE
    /\ pendingConnects = 0
    /\ connected = FALSE
    /\ taskRunning = FALSE
    /\ taskRequested = FALSE
    /\ pendingResolves = 0
    /\ sessions = {}
    /\ timers = {}
    /\ workspaceOpen \in BOOLEAN
    /\ effects = <<>>
    /\ lastOp = Op("constructor", <<>>, "", "void")
    /\ embeddedStarts = 0

\* host: command / webview restore calls createOrShowEmbeddedPreview
CreateOrShowEmbeddedPreview ==
    \E r \in Requests, p \in PanelArgs, ok \in StartOutcomes, cfg \in LaunchConfigs :
        LET s == createOrShowEmbeddedPreview(St(cfg), p, r.file, r.relative, ok)
            info == launchInfo(FALSE, r.file, r.relative, p)
        IN  /\ FreeSessionIds(St(cfg)) # {}
            /\ Commit(s)
            /\ lastOp' = Op("createOrShowEmbeddedPreview", <<info>>, "", s.ret)
            /\ embeddedStarts' = IF ~serverOn /\ ok
                                 THEN embeddedStarts + 1 ELSE embeddedStarts

\* host: command calls showPreviewInBrowser
ShowPreviewInBrowser ==
    \E r \in Requests, ok \in StartOutcomes, cfg \in LaunchConfigs :
        LET s == showPreviewInBrowser(St(cfg), r.file, r.relative, ok)
            info == launchInfo(TRUE, r.file, r.relative, "none")
        IN  /\ Commit(s)
            /\ lastOp' = Op("showPreviewInBrowser", <<info>>, "", s.ret)
            /\ UNCHANGED embeddedStarts

\* host: command calls openServer()
OpenServer ==
    \E fromTask \in BOOLEAN, ok \in StartOutcomes :
        LET s == openServer(St(NoConfig), fromTask, ok)
        IN  /\ (serverOn /\ fromTask) => pendingResolves < MaxResolves
            /\ Commit(s)
            /\ lastOp' = Op("openServer", <<>>, BoolStr(fromTask), s.ret)
            /\ UNCHANGED embeddedStarts

\* host: command calls closeServer()
CloseServer ==
    \E cfg \in DisposeConfigs :
        LET s == closeServer(St(cfg))
        IN  /\ (serverOn /\ currentPanel # 0) => FreeTimerIds(St(cfg)) # {}
            /\ Commit(s)
            /\ lastOp' = Op("closeServer", <<>>, "", s.ret)
            /\ UNCHANGED embeddedStarts

\* the server reports connected
Connected ==
    \E cfg \in LaunchConfigs :
        LET s == onConnected(Server_connected(St(cfg)))
        IN  /\ pendingConnects > 0
            /\ FreeSessionIds(St(cfg)) # {}
            /\ Commit(s)
            /\ lastOp' = Op("onConnected", pendingLaunchInfo, "", s.ret)
            /\ embeddedStarts' = 0

\* the promise of resolveExternalHTTPUri() settles
ExternalUriResolved ==
    LET s == onExternalUriResolved(St(NoConfig))
    IN  /\ pendingResolves > 0
        /\ Commit(s)
        /\ lastOp' = Op("onExternalUriResolved", <<>>, "", s.ret)
        /\ UNCHANGED embeddedStarts

\* the user runs the registered task from the host
UserRunsTask ==
    /\ ~taskRequested /\ ~taskRunning
    /\ Commit([St(NoConfig) EXCEPT !.taskRequested = TRUE])
    /\ lastOp' = Op("userRunsTask", <<>>, "", "void")
    /\ UNCHANGED embeddedStarts

\* the task opens and requests the server
TaskOpened ==
    \E ok \in StartOutcomes :
        LET s == onRequestToOpenServer(Task_open(St(NoConfig)), ok)
        IN  /\ taskRequested
            /\ serverOn => pendingResolves < MaxResolves
            /\ Commit(s)
            /\ lastOp' = Op("onRequestToOpenServer", <<>>, "", s.ret)
            /\ UNCHANGED embeddedStarts

\* the task is closed by the user and requests the server to close
TaskCloseRequested ==
    \E cfg \in DisposeConfigs :
        LET s == onRequestToCloseServer(St(cfg))
        IN  /\ taskRunning
            /\ FreeTimerIds(St(cfg)) # {}
            /\ Commit(s)
            /\ lastOp' = Op("onRequestToCloseServer", <<>>, BoolStr(previewActive), s.ret)
            /\ UNCHANGED embeddedStarts

\* the user closes the panel of a live session
PanelDisposed ==
    \E x \in sessions, cfg \in DisposeConfigs :
        LET s == onDispose([St(cfg) EXCEPT !.sessions = @ \ {x}])
        IN  /\ FreeTimerIds(St(cfg)) # {}
            /\ Commit(s)
            /\ lastOp' = Op("onDispose", <<>>, "", "void")
            /\ UNCHANGED embeddedStarts

\* a scheduled shutdown timer fires
TimerFires ==
    \E t \in timers, cfg \in DisposeConfigs :
        LET s == shutdownTimerCallback([St(cfg) EXCEPT !.timers = @ \ {t}])
        IN  /\ Commit(s)
            /\ lastOp' = Op("shutdownTimerCallback", <<>>, "", s.ret)
            /\ UNCHANGED embeddedStarts

\* the live session asks to move to the external browser
ShiftToExternalBrowser ==
    LET s == onShiftToExternalBrowser(St(NoConfig))
    IN  /\ currentPanel # 0
        /\ Commit(s)
        /\ lastOp' = Op("onShiftToExternalBrowser", <<>>, "", s.ret)
        /\ UNCHANGED embeddedStarts

\* the configuration changes: the run-as-task flag is read again
ConfigurationChanged ==
    \E b \in BOOLEAN :
        /\ b # runTaskWithExternalPreview
        /\ Commit([St(NoConfig) EXCEPT !.runTaskWithExternalPreview = b])
        /\ lastOp' = Op("onDidChangeConfiguration", <<>>, BoolStr(b), "void")
        /\ UNCHANGED embeddedStarts

Next ==
    \/ CreateOrShowEmbeddedPreview
    \/ ShowPreviewInBrowser
    \/ OpenServer
    \/ CloseServer
    \/ Connected
    \/ ExternalUriResolved
    \/ UserRunsTask
    \/ TaskOpened
    \/ TaskCloseRequested
    \/ PanelDisposed
    \/ TimerFires
    \/ ShiftToExternalBrowser
    \/ ConfigurationChanged

Spec == Init /\ [][Next]_vars

\* ---------------------------------------------------------------- properties
HasEff(e, op, flag) == \E i \in DOMAIN e : e[i].op = op /\ e[i].flag = flag

HasOp(e, op) == \E i \in DOMAIN e : e[i].op = op

CountOp(e, op) == Cardinality({ i \in DOMAIN e : e[i].op = op })

IsLaunch(x) == x.op \in {"openExternal", "reveal", "newBrowserPreview"}

\* the files the last handler launched, in order
Launches(e) == SelectSeq(e, IsLaunch)

\* the path transformNonRelativeFile yields in the current workspace
ResolvedPath(info) == transformNonRelativeFile(St(NoConfig), info.relative, info.file).out

RequestOps == {"createOrShowEmbeddedPreview", "showPreviewInBrowser"}

SessionIdsLive(ss) == { x.id : x \in ss }

\* C1: at most one PreviewSession is live in every reachable state, and
\* currentPanel, when set, is that session.
C1_AtMostOneSession ==
    /\ Cardinality(sessions) <= 1
    /\ currentPanel # 0 => SessionIdsLive(sessions) = {currentPanel}

\* C1: a createOrShowEmbeddedPreview call made while the server runs and a
\* session is live reveals that session with the new path and creates no second
\* session.
C1_RevealStep ==
    (lastOp'.name = "createOrShowEmbeddedPreview" /\ serverOn /\ currentPanel # 0)
        => /\ currentPanel' = currentPanel
           /\ SessionIdsLive(sessions') = SessionIdsLive(sessions)
           /\ ~HasOp(effects', "newBrowserPreview")
           /\ ~HasOp(effects', "createWebviewPanel")
           /\ Launches(effects') = << Eff("reveal", ResolvedPath(lastOp'.req[1]), "") >>
           /\ \A x \in sessions' : x.file = ResolvedPath(lastOp'.req[1])

\* C1: in every reachable state at most one PreviewSession is live, and an
\* embedded request made while the server runs and a session is live is a reveal
\* of that session with the new path, never a second creation.
C1_SingleSession == []C1_AtMostOneSession /\ [][C1_RevealStep]_vars

\* C1 witness: an embedded request has just revealed the live session
C1_Witness ==
    /\ lastOp.name = "createOrShowEmbeddedPreview"
    /\ HasOp(effects, "reveal")
    /\ currentPanel # 0
    /\ serverOn

\* C2: over the embedded requests made while the server is stopped and before
\* it connects, exactly one server start is issued.
C2_OneStartRequest == embeddedStarts <= 1

\* C3: a launch request B made before the server connects (a start is under
\* way), while an earlier request A is in the pending slot, replaces A: the slot
\* holds B only, and the connected event launches the one stored intent only.
C3_LastWriteWins ==
    /\ (lastOp.name \in RequestOps /\ ~serverOn /\ pendingConnects > 0
            /\ pendingLaunchInfo # <<>>)
           => pendingLaunchInfo = lastOp.req
    /\ (lastOp.name = "onConnected" /\ lastOp.req # <<>>)
           => Len(Launches(effects)) = 1

\* C4: a pending launch intent is present only while the server is not running.
C4_PendingOnlyWhileStopped == pendingLaunchInfo # <<>> => ~serverOn

\* C4: an intent enters the slot only as the request of the launch request
\* being made.
C4_StoredByRequest ==
    (pendingLaunchInfo' # <<>> /\ pendingLaunchInfo' # pendingLaunchInfo)
        => (lastOp'.name \in RequestOps /\ pendingLaunchInfo' = lastOp'.req /\ ~serverOn)

\* C4: the pending launch intent exists only while the server is stopped and a
\* launch has been requested; once the server runs and its connected event has
\* been handled the intent is none.
C4_PendingIntent ==
    /\ [](C4_PendingOnlyWhileStopped
            /\ (lastOp.name = "onConnected" => pendingLaunchInfo = <<>>))
    /\ [][C4_StoredByRequest]_vars

\* C4 witness: a connected event has just consumed a stored intent
C4_Witness ==
    /\ lastOp.name = "onConnected"
    /\ lastOp.req # <<>>
    /\ serverOn
    /\ pendingLaunchInfo = <<>>

\* the one launch the connected handler owes the intent info
Dispatch(info) ==
    IF info.external
    THEN Eff("openExternal", ResolvedPath(info), "")
    ELSE Eff("newBrowserPreview", ResolvedPath(info),
             IF info.panel = "none" THEN "created" ELSE info.panel)

\* C5: the connected handler dispatches the stored intent exactly once
\* (external to the external browser, embedded to the embedded preview with its
\* stored panel) and leaves the slot none; with no intent stored it launches
\* nothing, so no intent is dispatched twice.
C5_DispatchOnce ==
    lastOp.name = "onConnected"
        => /\ pendingLaunchInfo = <<>>
           /\ Launches(effects) =
                  IF lastOp.req = <<>> THEN <<>> ELSE << Dispatch(lastOp.req[1]) >>
           /\ (lastOp.req # <<>> /\ ~lastOp.req[1].external)
                  => \E x \in sessions :
                        /\ x.id = currentPanel
                        /\ x.file = ResolvedPath(lastOp.req[1])
                        /\ (lastOp.req[1].panel # "none" => x.panel = lastOp.req[1].panel)

\* C5 witness: a connected event dispatched an embedded intent with a stored panel
C5_Witness ==
    /\ lastOp.name = "onConnected"
    /\ lastOp.req # <<>>
    /\ ~lastOp.req[1].external
    /\ lastOp.req[1].panel = "restored"
    /\ \E x \in sessions : x.panel = "restored"

\* C6: after showPreviewInBrowser took the direct-start path and the start
\* returned false, the request is abandoned: no task, no panel, and no intent of
\* it is left for a later connected event.
C6_FailedStartAbandons ==
    (lastOp.name = "showPreviewInBrowser" /\ HasEff(effects, "Server.openServer", "false"))
        => /\ pendingLaunchInfo = <<>>
           /\ ~HasOp(effects, "extRunTask")
           /\ ~HasOp(effects, "newBrowserPreview")

\* C7: a preview request (embedded or external) made while the server runs and
\* the shutdown timer of a disposed session is pending cancels the timer and
\* leaves the server running.
C7_RequestStep ==
    (lastOp'.name \in RequestOps /\ serverOn /\ currentPanel = 0 /\ timers # {})
        => (timers' = {} /\ serverOn')

\* C7: a shutdown timer firing right after a preview request that found the
\* server running does not stop the server.
C7_TimerStep ==
    (lastOp.name \in RequestOps /\ serverOn /\ lastOp'.name = "shutdownTimerCallback")
        => serverOn'

\* C7: disposing the sole session schedules the shutdown timer; a new preview
\* request before it fires cancels it and the server stays running afterwards.
C7_RequestCancelsTimer == [][C7_RequestStep /\ C7_TimerStep]_vars

\* the Manager's fields and its collaborators' state
programVars ==
    << currentPanel, previewActive, currentTimeout, notifiedAboutLooseFiles,
       pendingLaunchInfo, runTaskWithExternalPreview, serverOn, pendingConnects,
       connected, taskRunning, taskRequested, pendingResolves, sessions, timers,
       workspaceOpen >>

\* C8: closeServer() on a server that is not running returns false, calls no
\* collaborator and changes no state.
C8_CloseStep ==
    (lastOp'.name = "closeServer" /\ ~serverOn)
        => /\ lastOp'.ret = "false"
           /\ effects' = <<>>
           /\ UNCHANGED programVars

\* C8: closeServer() while the server is not running returns false and changes
\* nothing (no stop, no close, no serverStop, no disconnected).
C8_CloseWhenStoppedIsNoop == [][C8_CloseStep]_vars

\* C8 witness: closeServer returned false with an intent and a timer pending
C8_Witness ==
    /\ lastOp.name = "closeServer"
    /\ lastOp.ret = "false"
    /\ pendingLaunchInfo # <<>>
    /\ timers # {}
    /\ previewActive

\* C9: closeServer() on a running server returns true and leaves the server
\* stopped, no session live, the task not running (serverStop(true) issued iff
\* a task was active) and the connection marked disconnected.
C9_CloseStep ==
    (lastOp'.name = "closeServer" /\ serverOn)
        => /\ lastOp'.ret = "true"
           /\ ~serverOn'
           /\ HasOp(effects', "Server.closeServer")
           /\ currentPanel' = 0
           /\ sessions' = {}
           /\ ~taskRunning'
           /\ HasEff(effects', "serverStop", "true") <=> taskRunning
           /\ ~HasEff(effects', "serverStop", "false")
           /\ ~connected'
           /\ HasOp(effects', "disconnected")

\* C9: closeServer() while the server runs returns true; afterwards the server
\* is stopped, no session is live, the task is not running and the connection
\* manager is disconnected.
C9_CloseWhenRunning == [][C9_CloseStep]_vars

\* C9 witness: closeServer closed a live session and stopped an active task
C9_Witness ==
    /\ lastOp.name = "closeServer"
    /\ lastOp.ret = "true"
    /\ HasOp(effects, "close")
    /\ HasEff(effects, "serverStop", "true")
    /\ ~serverOn

\* C10: openServer(fromTask=true) on a running server (the open-requested
\* reaction included) owes the task one notification, delivered with status
\* STARTED_BY_EMBEDDED_PREV; JUST_STARTED is sent by the connected handler only,
\* once per event; openServer(false) on a running server notifies nobody and
\* returns true.
C10_StartedStatus ==
    /\ CountOp(effects, "serverStarted") =
           IF lastOp.name \in {"onConnected", "onExternalUriResolved"} THEN 1 ELSE 0
    /\ HasEff(effects, "serverStarted", "JUST_STARTED") <=> lastOp.name = "onConnected"
    /\ HasEff(effects, "serverStarted", "STARTED_BY_EMBEDDED_PREV")
           <=> lastOp.name = "onExternalUriResolved"
    /\ ((lastOp.name = "onRequestToOpenServer"
            \/ (lastOp.name = "openServer" /\ lastOp.arg = "true")) /\ serverOn)
           => /\ effects = << Eff("resolveExternalHTTPUri", NoFile, "") >>
              /\ pendingResolves >= 1
              /\ lastOp.ret = "true"
    /\ (lastOp.name = "openServer" /\ lastOp.arg = "false" /\ serverOn)
           => (effects = <<>> /\ lastOp.ret = "true")

\* C10 witness: the notification owed by the open-requested reaction on a running
\* server has been delivered
C10_Witness ==
    /\ lastOp.name = "onExternalUriResolved"
    /\ taskRunning
    /\ serverOn
    /\ HasEff(effects, "serverStarted", "STARTED_BY_EMBEDDED_PREV")


\* C11 as stated: previewActive is true exactly when a session is live
\* (currentPanel is set), also between a disposal and the firing of its timer.
C11_ActiveIffSession == previewActive <=> currentPanel # 0

\* C11 amended: previewActive is true exactly when a session is live or the
\* shutdown timer of a disposed session is still pending.
C11_ActiveIffSessionOrTimer == previewActive <=> (currentPanel # 0 \/ timers # {})

\* C11 witness: the session is disposed, its timer has not fired, previewActive
\* is still true
C11_Witness ==
    /\ previewActive
    /\ currentPanel = 0
    /\ sessions = {}
    /\ timers # {}
    /\ serverOn


\* C12: one close-requested step.  With previewActive the server is left alone
\* and serverStop(false) is the only call; otherwise closeServer runs first (a
\* running server is stopped, its calls come first) and serverStop(true) is the
\* last call.  With a session live the server is still running afterwards.
C12_CloseRequestStep ==
    lastOp'.name = "onRequestToCloseServer"
        => /\ previewActive
                => /\ effects' = << Eff("serverStop", NoFile, "false") >>
                   /\ serverOn' = serverOn
                   /\ sessions' = sessions
                   /\ currentPanel' = currentPanel
           /\ ~previewActive
                => /\ ~serverOn'
                   /\ effects'[Len(effects')] = Eff("serverStop", NoFile, "true")
                   /\ ~HasEff(effects', "serverStop", "false")
                   /\ IF serverOn
                      THEN /\ effects'[1] = Eff("Server.closeServer", NoFile, "")
                           /\ HasOp(effects', "disconnected")
                           /\ ~connected'
                      ELSE effects' = << Eff("serverStop", NoFile, "true") >>
           /\ (currentPanel # 0 /\ serverOn) => (serverOn' /\ currentPanel' # 0)

\* C12: on a close request an active embedded preview keeps the server up and
\* only serverStop(false) is issued; otherwise the server is closed first and
\* serverStop(true) is issued then.
C12_CloseRequest == [][C12_CloseRequestStep]_vars

\* C12 witness: a close request arrived while a session was live and the server
\* is still running
C12_Witness ==
    /\ lastOp.name = "onRequestToCloseServer"
    /\ lastOp.arg = "true"
    /\ currentPanel # 0
    /\ serverOn
    /\ effects = << Eff("serverStop", NoFile, "false") >>


\* C13: one firing of a shutdown timer.  The server is closed exactly when it
\* runs, no task is running, a workspace is open and run-as-task is enabled;
\* previewActive is false afterwards in every case.
C13_TimerStep ==
    lastOp'.name = "shutdownTimerCallback"
        => /\ HasOp(effects', "Server.closeServer")
                <=> (serverOn /\ ~taskRunning /\ workspaceOpen
                        /\ runTaskWithExternalPreview)
           /\ HasOp(effects', "Server.closeServer") => (~serverOn' /\ ~connected')
           /\ ~HasOp(effects', "Server.closeServer")
                => (effects' = <<>> /\ serverOn' = serverOn)
           /\ ~previewActive'

\* C13: when a shutdown timer fires, closeServer is invoked iff the server is
\* running, no task is active, a workspace is open and run-as-task is enabled;
\* previewActive is false after the callback in every case.
C13_TimerFires == [][C13_TimerStep]_vars

\* C13 witness: a timer fired with a task running and left the server up
C13_Witness ==
    /\ lastOp.name = "shutdownTimerCallback"
    /\ serverOn
    /\ taskRunning
    /\ workspaceOpen
    /\ runTaskWithExternalPreview
    /\ ~previewActive


\* C14: at most one shutdown timer is pending, and a pending timer is the one
\* _currentTimeout holds (no superseded timer is left to fire).
C14_OnePendingTimer ==
    /\ Cardinality(timers) <= 1
    /\ \A t \in timers : t.id = currentTimeout

\* C14: scheduling a timer on disposal leaves the new timer as the only pending
\* one, and a timer that fires is the one scheduled last.
C14_ScheduleStep ==
    /\ HasOp(effects', "setTimeout")
           => /\ Cardinality(timers') = 1
              /\ \A t \in timers : t \notin timers'
    /\ lastOp'.name = "shutdownTimerCallback"
           => \E t \in timers : t.id = currentTimeout /\ t \notin timers'

\* C14: at most one shutdown timer is pending in every reachable state; once a
\* timer is scheduled on disposal no earlier timer is pending, so a superseded
\* timer never fires.
C14_TimerDebounce == []C14_OnePendingTimer /\ [][C14_ScheduleStep]_vars

\* C14 witness: a disposal has just scheduled the one pending timer
C14_Witness ==
    /\ lastOp.name = "onDispose"
    /\ HasOp(effects, "setTimeout")
    /\ Cardinality(timers) = 1
    /\ \E t \in timers : t.id = currentTimeout /\ t.delay > 0


\* a launch of a file that lies in no workspace (its path is an encoded endpoint)
IsLooseLaunch(x) ==
    /\ IsLaunch(x)
    /\ x.file # <<>>
    /\ Head(x.file) = EndpointTag
    /\ ~absPathInAnyWorkspace(St(NoConfig), Tail(x.file))

\* C15: one step of any handler.  The latch is never reset; the prompt is shown
\* only while the latch is unset and sets it; the telemetry event fires once for
\* every loose-file launch, latch set or not.
C15_NotifyStep ==
    /\ notifiedAboutLooseFiles => notifiedAboutLooseFiles'
    /\ CountOp(effects', "showWarningMessage") <= 1
    /\ HasOp(effects', "showWarningMessage")
           => (~notifiedAboutLooseFiles /\ notifiedAboutLooseFiles')
    /\ CountOp(effects', "sendTelemetryEvent") = Len(SelectSeq(effects', IsLooseLaunch))
    /\ HasOp(effects', "sendTelemetryEvent") => notifiedAboutLooseFiles'

\* C15: over any sequence of loose-file previews the warning prompt is shown at
\* most once (the latch is set by the first notification and never reset), while
\* the telemetry event fires on every loose-file preview.
C15_PromptAtMostOnce == [][C15_NotifyStep]_vars

\* C15 witness: a loose-file preview has shown the prompt and set the latch
C15_Witness ==
    /\ HasOp(effects, "showWarningMessage")
    /\ HasOp(effects, "sendTelemetryEvent")
    /\ notifiedAboutLooseFiles
    /\ ~workspaceOpen


\* ------------------------------------------- transformNonRelativeFile alone
\* the file arguments of transformNonRelativeFile: paths without a root, under
\* the default workspace root, under another workspace root, and under no
\* workspace root
TransformPaths ==
    { <<"a.html">>, <<"sub", "a.html">>,
      <<"ws", "b.html">>, <<"ws", "sub", "b.html">>,
      <<"ws2", "c.html">>, <<"ws2", "sub", "c.html">>,
      <<"tmp", "d.html">>, <<"tmp", "sub", "d.html">> }

\* a Manager just constructed, with or without workspace folders
TransformInit ==
    /\ currentPanel = 0
    /\ previewActive = FALSE
    /\ currentTimeout = 0
    /\ notifiedAboutLooseFiles = FALSE
    /\ pendingLaunchInfo = <<>>
    /\ runTaskWithExternalPreview \in BOOLEAN
    /\ serverOn = FALSE
    /\ pendingConnects = 0
    /\ connected = FALSE
    /\ taskRunning = FALSE
    /\ taskRequested = FALSE
    /\ pendingResolves = 0
    /\ sessions = {}
    /\ timers = {}
    /\ workspaceOpen \in BOOLEAN
    /\ effects = <<>>
    /\ lastOp = Op("constructor", <<>>, "", "void")
    /\ embeddedStarts = 0

\* one call transformNonRelativeFile(relative, file); the returned path is
\* recorded as the last effect of the call
TransformNonRelativeFile ==
    \E file \in TransformPaths, relative \in BOOLEAN, cfg \in LaunchConfigs :
        LET s == transformNonRelativeFile(St(cfg), relative, file)
        IN  /\ Commit(Emit(s, "return", s.out, ""))
            /\ lastOp' = Op("transformNonRelativeFile",
                            << launchInfo(FALSE, file, relative, "none") >>,
                            BoolStr(cfg.notifyOnOpenLooseFile), "void")
            /\ UNCHANGED embeddedStarts

TransformNext == TransformNonRelativeFile

TransformSpec == TransformInit /\ [][TransformNext]_vars

\* the path the last transformNonRelativeFile call returned
Returned(e) == e[Len(e)].file

\* the call made no loose-file notification and left the latch alone
NoNotification ==
    /\ ~HasOp(effects', "sendTelemetryEvent")
    /\ ~HasOp(effects', "showWarningMessage")
    /\ notifiedAboutLooseFiles' = notifiedAboutLooseFiles

\* the call made the loose-file notification: telemetry, the prompt exactly when
\* the latch was unset and the setting allows it, and the latch set
Notification ==
    /\ CountOp(effects', "sendTelemetryEvent") = 1
    /\ HasOp(effects', "showWarningMessage")
           <=> (~notifiedAboutLooseFiles /\ lastOp'.arg = "true")
    /\ notifiedAboutLooseFiles'

\* the three rows of the case table on which the claim and the code agree
C16_AgreedRows ==
    LET r == lastOp'.req[1]
    IN  /\ r.relative => (Returned(effects') = r.file /\ NoNotification)
        /\ (~r.relative /\ workspaceOpen /\ IsPrefix(WorkspaceRoot, r.file))
               => /\ Returned(effects') = SubSeq(r.file, 2, Len(r.file))
                  /\ NoNotification
        /\ (~r.relative /\ ~(workspaceOpen /\ (IsPrefix(WorkspaceRoot, r.file)
                                               \/ IsPrefix(OtherWorkspaceRoot, r.file))))
               => /\ Returned(effects') = <<EndpointTag>> \o r.file
                  /\ Notification

\* an absolute path inside a known workspace that is not the default one
InOtherWorkspace(r) ==
    ~r.relative /\ workspaceOpen /\ IsPrefix(OtherWorkspaceRoot, r.file)

C16_StatedStep ==
    lastOp'.name = "transformNonRelativeFile"
        => /\ C16_AgreedRows
           /\ InOtherWorkspace(lastOp'.req[1])
                  => /\ Returned(effects') = <<EndpointTag>> \o lastOp'.req[1].file
                     /\ Notification

C16_CodeStep ==
    lastOp'.name = "transformNonRelativeFile"
        => /\ C16_AgreedRows
           /\ InOtherWorkspace(lastOp'.req[1])
                  => /\ Returned(effects') = <<EndpointTag>> \o lastOp'.req[1].file
                     /\ NoNotification

\* C16 as stated: the case table with the row "inside some known workspace but
\* not the default one: encoded endpoint returned and the loose-file
\* notification made".
C16_CaseTableAsStated == [][C16_StatedStep]_vars

\* C16: transformNonRelativeFile follows the case table: a relative path is
\* returned unchanged without notification; an absolute path inside the default
\* workspace is returned workspace-relative without notification; an absolute
\* path inside another known workspace is returned as the encoded endpoint
\* without notification; an absolute path outside every workspace is returned as
\* the encoded endpoint and the loose-file notification is made.
C16_CaseTable == [][C16_CodeStep]_vars

\* C16 witness: an absolute path inside the other workspace has been transformed
\* into its encoded endpoint
C16_Witness ==
    /\ lastOp.name = "transformNonRelativeFile"
    /\ workspaceOpen
    /\ ~lastOp.req[1].relative
    /\ IsPrefix(OtherWorkspaceRoot, lastOp.req[1].file)
    /\ effects = << Eff("return", <<EndpointTag>> \o lastOp.req[1].file, "") >>


\* the call launched the requested file in the external browser exactly once,
\* left the pending intent alone and did not start the server
LaunchedDirectly ==
    /\ Launches(effects') = << Eff("openExternal", ResolvedPath(lastOp'.req[1]), "") >>
    /\ pendingLaunchInfo' = pendingLaunchInfo
    /\ ~HasOp(effects', "Server.openServer")
    /\ serverOn' = serverOn
    /\ pendingConnects' = pendingConnects

C17_StatedStep ==
    lastOp'.name = "showPreviewInBrowser"
        => /\ HasOp(effects', "extRunTask")
                  => (~taskRunning /\ ~serverOn /\ workspaceOpen
                                   /\ runTaskWithExternalPreview)
           /\ (taskRunning \/ serverOn)
                  => (LaunchedDirectly /\ ~HasOp(effects', "extRunTask")
                                       /\ taskRequested' = taskRequested)

C17_CodeStep ==
    lastOp'.name = "showPreviewInBrowser"
        => /\ HasOp(effects', "extRunTask")
                  <=> (~taskRunning /\ workspaceOpen /\ runTaskWithExternalPreview)
           /\ (taskRunning \/ serverOn) => LaunchedDirectly
           /\ taskRunning => (~HasOp(effects', "extRunTask")
                                 /\ taskRequested' = taskRequested)
           /\ (~taskRunning /\ ~serverOn)
                  => /\ Launches(effects') = <<>>
                     /\ pendingLaunchInfo' = << lastOp'.req[1] >>

\* C17 as stated: showPreviewInBrowser calls extRunTask only when no task is
\* active and the server is not running; with a task active or the server
\* running it launches the file once and starts neither a task nor the server.
C17_TaskOnlyWhenStopped == [][C17_StatedStep]_vars

\* C17: showPreviewInBrowser calls extRunTask exactly when no task is active, a
\* workspace is open and run-as-task is enabled, whether or not the server runs;
\* with a task active or the server running it launches the file in the external
\* browser exactly once, stores no pending intent and does not start the server;
\* with a task active it starts no task either.
C17_TaskWheneverNoTask == [][C17_CodeStep]_vars

\* C17 witness: with the server running and no task, the call launched the file
\* and ran the task
C17_Witness ==
    /\ lastOp.name = "showPreviewInBrowser"
    /\ serverOn
    /\ HasOp(effects, "openExternal")
    /\ HasOp(effects, "extRunTask")
    /\ taskRequested
    /\ ~taskRunning


\* ------------------------------------------------------------------ liveness
\* The connected event of a successful server start is eventually delivered:
\* WF_vars(Connected) written out.  Connected is enabled exactly while a
\* connected event is owed (pendingConnects > 0) and is the only step that
\* lowers pendingConnects, so weak fairness of Connected says that infinitely
\* often no event is owed or infinitely often one is delivered.
ConnectedDelivered == pendingConnects' < pendingConnects

LiveSpec ==
    Spec /\ ([]<>(pendingConnects = 0) \/ []<><<ConnectedDelivered>>_pendingConnects)

\* every launch intent a request can store
Intents ==
    { launchInfo(TRUE, r.file, r.relative, "none") : r \in Requests }
        \cup { launchInfo(FALSE, r.file, r.relative, p) : r \in Requests, p \in PanelArgs }

\* the connected handler has just performed the launch of intent info
Performed(info) ==
    /\ lastOp.name = "onConnected"
    /\ lastOp.req = << info >>
    /\ pendingLaunchInfo = <<>>
    /\ Launches(effects) = << Dispatch(info) >>
    /\ ~info.external
           => \E x \in sessions : x.id = currentPanel /\ x.file = ResolvedPath(info)

\* the connected handler has just performed the launch of the intent it found
PerformedStored ==
    /\ lastOp.name = "onConnected"
    /\ lastOp.req # <<>>
    /\ Performed(lastOp.req[1])

\* C18: the stored intent leaves the slot only by being launched by the
\* connected handler or by being replaced by the request then being made, so at
\* the connected event the slot holds the most recent stored request.
C18_SlotStep ==
    (pendingLaunchInfo # <<>> /\ pendingLaunchInfo' # pendingLaunchInfo)
        => \/ (lastOp'.name = "onConnected" /\ lastOp'.req = pendingLaunchInfo
                   /\ pendingLaunchInfo' = <<>>)
           \/ (lastOp'.name \in RequestOps /\ pendingLaunchInfo' = lastOp'.req)

\* C18: liveness.  Once a launch request made while the server is stopped is
\* stored and a server start has succeeded, the connected handler eventually
\* launches the most recently stored request (an embedded one as a live session
\* showing its resolved path) and leaves the pending intent none.
C18_EventuallyLaunched ==
    /\ [][C18_SlotStep]_vars
    /\ [][ConnectedDelivered => lastOp'.name = "onConnected"]_vars
    /\ (pendingLaunchInfo # <<>> /\ pendingConnects > 0) ~> PerformedStored

\* C18 witness: the connected event has been delivered and launched a stored
\* external intent; no connected event is owed any more
C18_Witness ==
    /\ \E info \in Intents : info.external /\ Performed(info)
    /\ serverOn
    /\ pendingConnects = 0


\* C19: a live session implies previewActive and no pending shutdown timer
C19_LiveSessionGuards ==
    currentPanel # 0 => (previewActive /\ timers = {})

\* C19: a timer callback or close-requested reaction that stops the server
\* started with no live session
C19_StopStep ==
    (lastOp'.name \in {"shutdownTimerCallback", "onRequestToCloseServer"}
         /\ HasOp(effects', "Server.closeServer"))
        => currentPanel = 0

\* C19: neither the shutdown-timer callback nor the close-requested reaction
\* stops the server while a PreviewSession is live: a live session implies that
\* previewActive is true and that no shutdown timer is pending, so both paths
\* reach closeServer only when currentPanel is undefined.
C19_NoStopWhileLive == []C19_LiveSessionGuards /\ [][C19_StopStep]_vars

\* C19 witness: the close-requested reaction, made with a session live, kept
\* the server and the session
C19_Witness ==
    /\ lastOp.name = "onRequestToCloseServer"
    /\ currentPanel # 0
    /\ previewActive
    /\ \E x \in sessions : x.id = currentPanel
    /\ serverOn
    /\ ~HasOp(effects, "Server.closeServer")
    /\ ~taskRunning


\* C20: a file is launched (external browser opened, or embedded session created
\* or revealed) only in states where the server is running: the handler that
\* has just launched a file leaves the server running.
C20_LaunchOnlyWhileRunning == Launches(effects) # <<>> => serverOn

====
